---------------------------- MODULE Spec2Model ----------------------------
(***************************************************************************)
(* PASTA: RTT estimation over a connection's datagrams                     *)
(* (pasta/connection.py), the connection-type classifier                   *)
(* (pasta/plugins/connection_type.py) and the server-side stepping-stone   *)
(* detector (pasta/plugins/stepping_stone_detection_serverside.py).        *)
(*                                                                         *)
(* Durations and timestamps are whole microseconds (datetime.timedelta     *)
(* and datetime.datetime hold integers of microseconds).  An optional      *)
(* value (Python's None) is the empty sequence, a present value v is <<v>>.*)
(***************************************************************************)
EXTENDS Integers, Sequences, FiniteSets, TLC

VARIABLES
    datagrams,          \* Connection.datagrams: the list of Datagram objects
    pc,                 \* where the run over this connection stands
    bursts,             \* how many bursts of datagrams were captured
    connection_type,    \* ConnectionType.connection_type
    time_to_reply,      \* ConnectionType.time_to_reply
    ratio_server_sent,  \* ConnectionType.ratio_server_sent
    is_stepping_stone,  \* SteppingStoneDetectionServerSide.is_stepping_stone[c]
    raised,             \* the exception that left the analyser, if any
    calls,              \* the methods the analyser went through, in order
    ps_payloads,        \* is_PS_modally_distributed: the list payloads
    ps_groups,          \* is_PS_modally_distributed: the dict groups
    ps_processed        \* how many payloads the grouping loop went through

analyser == <<connection_type, time_to_reply, ratio_server_sent,
              is_stepping_stone, raised, calls>>
clustering == <<ps_payloads, ps_groups, ps_processed>>
vars == <<datagrams, pc, bursts, analyser, clustering>>

(***************************************************************************)
(* Bounds of the model.                                                    *)
(***************************************************************************)
MaxLen == 4
MaxLong == 7
MaxAnnotated == 3
MaxBursts == 3
MaxDatagrams == 22      \* datagrams of a connection handed to the detector
MaxPayloads == 4        \* datagrams of a connection whose payloads are grouped
Gaps == {0, 1}          \* time elapsed between two captured datagrams
SeqNbs == {1, 2}        \* sequence numbers
Acks == {-1, 0}         \* Datagram.ack: -1 when the datagram acks nothing
PayloadLens == {0, 1, 19}   \* payload lengths handed to the classifier
RTTs == {0, 1, 2}           \* RTTs of an annotated connection
BurstLens == {1, 20}        \* datagrams in a burst handed to the detector
BurstPayloadLens == {0, 1, 6}
BurstGaps == {1, 2}
PayloadSizes == 1..7        \* payload lengths handed to the grouping

None == <<>>
Some(v) == <<v>>

(***************************************************************************)
(* Datagram.__init__: RTT starts as None.  id is the object's identity:    *)
(* its index in capture order.                                             *)
(***************************************************************************)
Datagram(id, sentByClient, time, seqNb, payloadLen, ack) ==
    [id |-> id, sentByClient |-> sentByClient, time |-> time, seqNb |-> seqNb,
     payloadLen |-> payloadLen, ack |-> ack, RTT |-> None]

\* list.reverse()
Reverse(s) == [i \in 1..Len(s) |-> s[Len(s) + 1 - i]]

\* the step-1 loop with line 114 left out: a used last_acking stays in place
RECURSIVE Step1Loop_KeepAcker(_, _, _)
Step1Loop_KeepAcker(ds, i, last_acking) ==
    IF i > Len(ds) THEN ds
    ELSE LET datagram == ds[i]
             other == ~datagram.sentByClient
             acked == /\ last_acking[other] # None
                      /\ datagram.seqNb < ds[last_acking[other][1]].seqNb
             d1 == IF acked
                   THEN [datagram EXCEPT !.RTT =
                            Some(ds[last_acking[other][1]].time - datagram.time)]
                   ELSE datagram
             la2 == IF datagram.ack > -1
                    THEN [last_acking EXCEPT ![datagram.sentByClient] = Some(i)]
                    ELSE last_acking
         IN Step1Loop_KeepAcker([ds EXCEPT ![i] = d1], i + 1, la2)

(***************************************************************************)
(* compute_RTT, step 1: the loop over the reversed list.  last_acking      *)
(* holds, per direction, a reference to a datagram of the list (here its   *)
(* index in ds) or None.                                                   *)
(***************************************************************************)
RECURSIVE Step1Loop(_, _, _)
Step1Loop(ds, i, last_acking) ==
    IF i > Len(ds) THEN ds
    ELSE LET datagram == ds[i]
             other == ~datagram.sentByClient
             acked == /\ last_acking[other] # None
                      /\ datagram.seqNb < ds[last_acking[other][1]].seqNb
             d1 == IF acked
                   THEN [datagram EXCEPT !.RTT =
                            Some(ds[last_acking[other][1]].time - datagram.time)]
                   ELSE datagram
             la1 == IF acked THEN [last_acking EXCEPT ![other] = None]
                    ELSE last_acking
             la2 == IF datagram.ack > -1
                    THEN [la1 EXCEPT ![datagram.sentByClient] = Some(i)]
                    ELSE la1
         IN Step1Loop([ds EXCEPT ![i] = d1], i + 1, la2)

\* Step 1 without the second self.datagrams.reverse()
Step1_NoRestore(ds) == Step1Loop(Reverse(ds), 1, [w \in BOOLEAN |-> None])

\* Step 1 as a whole: reverse, loop, reverse.
Step1(ds) == Reverse(Step1Loop(Reverse(ds), 1, [w \in BOOLEAN |-> None]))

\* the recopy loop starting at the second waiting datagram
Recopy_SkipFirst(ds, empty, rtt) ==
    [p \in 1..Len(ds) |->
        IF \E i \in 2..Len(empty) : empty[i] = p
        THEN [ds[p] EXCEPT !.RTT = rtt] ELSE ds[p]]

\* "just recopy the RTT to the previous ones": d.RTT = rtt for d in empty
Recopy(ds, empty, rtt) ==
    [p \in 1..Len(ds) |->
        IF \E i \in 1..Len(empty) : empty[i] = p
        THEN [ds[p] EXCEPT !.RTT = rtt] ELSE ds[p]]

\* the interpolation with i counted from 0
Interpolate_FromZero(ds, empty, last, rtt) ==
    LET diff == (rtt - last) \div (1 + Len(empty))
    IN [p \in 1..Len(ds) |->
          IF \E i \in 1..Len(empty) : empty[i] = p
          THEN LET i == CHOOSE i \in 1..Len(empty) : empty[i] = p
               IN [ds[p] EXCEPT !.RTT = Some(last + (i - 1) * diff)]
          ELSE ds[p]]

(***************************************************************************)
(* The linear interpolation: diff = rtt - last; diff /= 1 + len(empty)     *)
(* (Python 2.7 divides a timedelta by an int with floor division on its    *)
(* microseconds); the i-th of empty receives last + i * diff, i from 1.    *)
(***************************************************************************)
Interpolate(ds, empty, last, rtt) ==
    LET diff == (rtt - last) \div (1 + Len(empty))
    IN [p \in 1..Len(ds) |->
          IF \E i \in 1..Len(empty) : empty[i] = p
          THEN LET i == CHOOSE i \in 1..Len(empty) : empty[i] = p
               IN [ds[p] EXCEPT !.RTT = Some(last + i * diff)]
          ELSE ds[p]]

(***************************************************************************)
(* compute_RTT, step 2: the forward loop.  empty_RTTs holds, per           *)
(* direction, the datagrams (indices) waiting for an RTT.                  *)
(***************************************************************************)
RECURSIVE Step2Loop(_, _, _, _)
Step2Loop(ds, j, last_RTT, empty_RTTs) ==
    IF j > Len(ds)
    THEN [ds |-> ds, last_RTT |-> last_RTT, empty_RTTs |-> empty_RTTs]
    ELSE LET datagram == ds[j]
             way == datagram.sentByClient
         IN IF datagram.RTT = None
            THEN Step2Loop(ds, j + 1, last_RTT,
                           [empty_RTTs EXCEPT ![way] = Append(@, j)])
            ELSE LET filled ==
                       IF empty_RTTs[way] # <<>>
                       THEN IF last_RTT[way] = None
                            THEN Recopy(ds, empty_RTTs[way], datagram.RTT)
                            ELSE Interpolate(ds, empty_RTTs[way],
                                             last_RTT[way][1], datagram.RTT[1])
                       ELSE ds
                 IN Step2Loop(filled, j + 1,
                              [last_RTT EXCEPT ![way] = datagram.RTT],
                              [empty_RTTs EXCEPT ![way] = <<>>])

\* compute_RTT ending after the forward loop
Step2Tail_Skipped(st, ways) == st.ds

\* Step 2 (cont.): the last datagrams of a direction take its last RTT.
RECURSIVE Step2Tail(_, _)
Step2Tail(st, ways) ==
    IF ways = <<>> THEN st.ds
    ELSE LET way == Head(ways)
         IN IF st.last_RTT[way] = None
            THEN Step2Tail(st, Tail(ways))
            ELSE Step2Tail([st EXCEPT !.ds =
                              Recopy(st.ds, st.empty_RTTs[way], st.last_RTT[way])],
                           Tail(ways))

Step2(ds) ==
    Step2Tail(Step2Loop(ds, 1, [w \in BOOLEAN |-> None], [w \in BOOLEAN |-> <<>>]),
              <<TRUE, FALSE>>)

\* Connection.compute_RTT
compute_RTT(ds) == Step2(Step1(ds))

(***************************************************************************)
(* The capture layer hands over one more datagram, later in time than the  *)
(* ones before it.                                                         *)
(***************************************************************************)
LastTime == IF datagrams = <<>> THEN 0 ELSE datagrams[Len(datagrams)].time

Capture ==
    /\ pc = "capture"
    /\ Len(datagrams) < MaxLen
    /\ \E c \in BOOLEAN, g \in Gaps, s \in SeqNbs, a \in Acks :
          datagrams' = Append(datagrams,
              Datagram(Len(datagrams) + 1, c, LastTime + g, s, 1, a))
    /\ UNCHANGED <<pc, bursts, analyser, clustering>>

(***************************************************************************)
(* The same, for the capture of an established session: every datagram     *)
(* carries an acknowledgment (of the datagram captured before it), and     *)
(* sequence numbers grow with capture order, so that an                    *)
(* acknowledgment-carrying datagram has a larger sequence number than the  *)
(* datagrams before it.                                                    *)
(***************************************************************************)
CaptureOrdered ==
    /\ pc = "capture"
    /\ Len(datagrams) < MaxLong
    /\ \E c \in BOOLEAN, g \in Gaps :
          datagrams' = Append(datagrams,
              Datagram(Len(datagrams) + 1, c, LastTime + g,
                       Len(datagrams) + 1, 1, Len(datagrams)))
    /\ UNCHANGED <<pc, bursts, analyser, clustering>>

ComputeRTT ==
    /\ pc = "capture"
    /\ datagrams' = compute_RTT(datagrams)
    /\ pc' = "estimated"
    /\ UNCHANGED <<bursts, analyser, clustering>>

(***************************************************************************)
(* ConnectionType (plugins/connection_type.py).  It reads the datagram's   *)
(* fields under the names sent_by_client, payload_len, time and rtt.  A    *)
(* float ratio n/d is the pair <<n, d>> and is compared exactly.           *)
(***************************************************************************)
shell_max_time_to_reply == <<7, 10>>
shell_min_replies == <<6, 10>>
rshell_max_time_to_reply == <<7, 10>>
rshell_min_replies == <<6, 10>>
scp_up_min_asymetry == <<95, 100>>
scp_down_max_asymetry == <<5, 100>>

\* a <= b for ratios with non-zero denominators
RatioLeq(a, b) ==
    IF (a[2] > 0) = (b[2] > 0)
    THEN a[1] * b[2] <= b[1] * a[2]
    ELSE a[1] * b[2] >= b[1] * a[2]

RECURSIVE SumPayload(_, _, _)
SumPayload(ds, j, byClient) ==
    IF j > Len(ds) THEN 0
    ELSE (IF ds[j].sentByClient = byClient THEN ds[j].payloadLen ELSE 0)
         + SumPayload(ds, j + 1, byClient)

\* compute_asymetry: the ratio of the payload bytes sent by the server
compute_asymetry(ds) ==
    LET client_sent == SumPayload(ds, 1, TRUE)
        server_sent == SumPayload(ds, 1, FALSE)
    IN IF server_sent = 0 THEN <<0, 1>>
       ELSE <<server_sent, server_sent + client_sent>>

(***************************************************************************)
(* compute_time_to_reply: the loop.  last_datagram holds, per direction,   *)
(* a datagram (its index) or None.  Reading .rtt.total_seconds() of a      *)
(* datagram whose rtt is None raises AttributeError.  A sample is the      *)
(* ratio <<reply time - trigger time, trigger rtt>>.                       *)
(***************************************************************************)
RECURSIVE TimeToReplyLoop(_, _, _, _)
TimeToReplyLoop(ds, j, ttr, last_datagram) ==
    IF j > Len(ds) THEN [time_to_reply |-> ttr, raised |-> None]
    ELSE LET datagram == ds[j]
             way == ~datagram.sentByClient
             trigger == last_datagram[way]
         IN IF datagram.payloadLen = 0
            THEN TimeToReplyLoop(ds, j + 1, ttr, last_datagram)
            ELSE IF trigger # None /\ ds[trigger[1]].RTT = None
            THEN [time_to_reply |-> ttr, raised |-> Some("AttributeError")]
            ELSE TimeToReplyLoop(ds, j + 1,
                    IF trigger # None /\ ds[trigger[1]].RTT[1] # 0
                    THEN [ttr EXCEPT ![way] = Append(@,
                            <<datagram.time - ds[trigger[1]].time,
                              ds[trigger[1]].RTT[1]>>)]
                    ELSE ttr,
                    [w \in BOOLEAN |-> IF w = way THEN None ELSE Some(j)])

compute_time_to_reply(ds) ==
    TimeToReplyLoop(ds, 1, [w \in BOOLEAN |-> <<>>], [w \in BOOLEAN |-> None])

\* analyse, lines 68 and 73: the asymetry says scp (down), with >= turned >
IsScpDown_Strict(ratio) ==
    /\ ~RatioLeq(ratio, <<1, 2>>)
    /\ ~RatioLeq(ratio, scp_up_min_asymetry)

\* analyse, lines 68 and 73: the asymetry says scp (down)
IsScpDown(ratio) ==
    /\ ~RatioLeq(ratio, <<1, 2>>)
    /\ RatioLeq(scp_up_min_asymetry, ratio)

\* analyse, lines 76 and 81: the asymetry says scp (up)
IsScpUp(ratio) ==
    /\ RatioLeq(ratio, <<1, 2>>)
    /\ RatioLeq(ratio, scp_down_max_asymetry)

\* analyse, lines 95-106: the replies of one direction make the decision
EnoughReplies(samples, max_time_to_reply, min_replies) ==
    /\ Len(samples) # 0
    /\ LET replies_to_consider ==
             Cardinality({i \in 1..Len(samples) :
                            RatioLeq(samples[i], max_time_to_reply)})
           replies_total == Len(samples)
       IN RatioLeq(min_replies, <<replies_to_consider, replies_total>>)

\* analyse: what the analyser holds when the call ends
analyse(ds) ==
    LET ratio == compute_asymetry(ds)
        start == [connection_type |-> None,
                  time_to_reply |-> [w \in BOOLEAN |-> <<>>],
                  ratio_server_sent |-> ratio,
                  raised |-> None,
                  calls |-> <<"compute_asymetry">>]
        replies == compute_time_to_reply(ds)
        step2 == [start EXCEPT !.time_to_reply = replies.time_to_reply,
                               !.raised = replies.raised,
                               !.calls = Append(@, "compute_time_to_reply")]
    IN IF IsScpDown(ratio)
       THEN [start EXCEPT !.connection_type = Some("scp (down)")]
       ELSE IF IsScpUp(ratio)
       THEN [start EXCEPT !.connection_type = Some("scp (up)")]
       ELSE IF replies.raised # None
       THEN step2
       ELSE IF EnoughReplies(replies.time_to_reply[TRUE],
                             shell_max_time_to_reply, shell_min_replies)
       THEN [step2 EXCEPT !.connection_type = Some("shell")]
       ELSE IF EnoughReplies(replies.time_to_reply[FALSE],
                             rshell_max_time_to_reply, rshell_min_replies)
       THEN [step2 EXCEPT !.connection_type = Some("reverse shell")]
       ELSE [step2 EXCEPT !.connection_type = Some("tunnel")]

\* ConnectionType.analyse(connection) on the RTT-annotated connection
Analyse ==
    /\ pc = "estimated"
    /\ LET r == analyse(datagrams)
       IN /\ connection_type' = r.connection_type
          /\ time_to_reply' = r.time_to_reply
          /\ ratio_server_sent' = r.ratio_server_sent
          /\ raised' = r.raised
          /\ calls' = r.calls
    /\ pc' = "classified"
    /\ UNCHANGED <<datagrams, bursts, is_stepping_stone, clustering>>

(***************************************************************************)
(* An RTT-annotated connection handed to the classifier grows by one       *)
(* datagram.  After compute_RTT the datagrams of one direction have their  *)
(* RTT all set or all unset.                                               *)
(***************************************************************************)
SameEvidence(c, r) ==
    \A p \in 1..Len(datagrams) :
        datagrams[p].sentByClient = c => (datagrams[p].RTT = None) = (r = None)

CaptureAnnotated ==
    /\ pc = "estimated"
    /\ Len(datagrams) < MaxAnnotated
    /\ \E c \in BOOLEAN, l \in PayloadLens,
          r \in {None} \cup {Some(t) : t \in RTTs} :
          /\ SameEvidence(c, r)
          /\ datagrams' = Append(datagrams,
                [Datagram(Len(datagrams) + 1, c, LastTime + 1,
                          Len(datagrams) + 1, l, Len(datagrams))
                    EXCEPT !.RTT = r])
    /\ UNCHANGED <<pc, bursts, analyser, clustering>>

(***************************************************************************)
(* SteppingStoneDetectionServerSideConnection                              *)
(* (plugins/stepping_stone_detection_serverside.py).                       *)
(***************************************************************************)
MinDatagrams == 20      \* analyse: len(c.datagrams) > 20
MinRTTs == 20           \* compare_RTT_IAT: len(RTTs) < 20
IN_GROUP == 3
IAT_RTT_DIFFERENT == <<1, 100>>
CLOSE_ENOUGH == <<1, 2>>
N_MOD_DIST == <<98, 100>>
MIN_SIZE == <<1, 10>>

Abs(x) == IF x < 0 THEN -x ELSE x

\* __init__: the client's payload-bearing datagrams
Filtered(ds) == SelectSeq(ds, LAMBDA d : d.sentByClient /\ d.payloadLen # 0)

\* compare_RTT_IAT, lines 124-133: the inter-arrival times
RECURSIVE IATLoop(_, _, _, _, _)
IATLoop(ds, j, first, last_datagram, IATs) ==
    IF j > Len(ds) THEN IATs
    ELSE LET datagram == ds[j]
         IN IF datagram.payloadLen = 0
            THEN IATLoop(ds, j + 1, first, last_datagram, IATs)
            ELSE IF ~first /\ datagram.sentByClient
            THEN IATLoop(ds, j + 1, first, j,
                         Append(IATs, datagram.time - ds[last_datagram].time))
            ELSE IF first /\ datagram.sentByClient
            THEN IATLoop(ds, j + 1, FALSE, j, IATs)
            ELSE IATLoop(ds, j + 1, first, last_datagram, IATs)

(***************************************************************************)
(* compare_RTT_IAT: Some(TRUE) when IATs and RTTs are different enough,    *)
(* Some(FALSE) when not, None with fewer than 20 RTTs.  The list of RTTs   *)
(* is built first, from every filtered datagram: an RTT of None raises     *)
(* AttributeError.                                                         *)
(***************************************************************************)
compare_RTT_IAT(ds) ==
    LET mine == Filtered(ds)
        all == [i \in 1..Len(mine) |-> mine[i].RTT]
        rtts == [i \in 1..(IF Len(all) = 0 THEN 0 ELSE Len(all) - 1) |->
                    all[i + 1][1]]
        IATs == IATLoop(ds, 1, TRUE, 0, <<>>)
        compt == Cardinality({i \in 1..Len(rtts) :
                    /\ rtts[i] # 0
                    /\ RatioLeq(<<Abs(rtts[i] - IATs[i]), Abs(rtts[i])>>,
                                CLOSE_ENOUGH)})
    IN IF \E i \in 1..Len(all) : all[i] = None
       THEN [result |-> None, raised |-> Some("AttributeError")]
       ELSE IF Len(rtts) < MinRTTs
       THEN [result |-> None, raised |-> None]
       ELSE [result |-> Some(RatioLeq(<<compt, Len(rtts)>>, IAT_RTT_DIFFERENT)),
             raised |-> None]

RECURSIVE SeqSum(_)
SeqSum(q) == IF q = <<>> THEN 0 ELSE Head(q) + SeqSum(Tail(q))

(***************************************************************************)
(* The dict groups is a sequence of entries [key, members].  Its iteration *)
(* visits the keys in KeysInOrder: a dict of small distinct ints below 8   *)
(* is visited in ascending order.                                          *)
(***************************************************************************)
Keys(groups) == {groups[i].key : i \in 1..Len(groups)}
Entry(groups, k) == CHOOSE i \in 1..Len(groups) : groups[i].key = k
Members(groups, k) == groups[Entry(groups, k)].members

RECURSIVE KeysInOrder(_)
KeysInOrder(keys) ==
    IF keys = {} THEN <<>>
    ELSE LET k == CHOOSE x \in keys : \A y \in keys : x <= y
         IN <<k>> \o KeysInOrder(keys \ {k})

\* closest_group: the loop over the groups
RECURSIVE ClosestLoop(_, _, _)
ClosestLoop(payload, order, closest) ==
    IF order = <<>> THEN closest
    ELSE LET group == Head(order)
         IN ClosestLoop(payload, Tail(order),
               IF /\ Abs(group - payload) <= IN_GROUP
                  /\ (closest = None \/ Abs(group - payload) < closest[1])
               THEN Some(group) ELSE closest)

closest_group(payload, groups) ==
    ClosestLoop(payload, KeysInOrder(Keys(groups)), None)

\* update_average_possible looking at the other groups only
update_average_possible_OtherGroups(closest, groups) ==
    LET prov_average == SeqSum(Members(groups, closest))
                            \div Len(Members(groups, closest))
    IN ~ \E group \in Keys(groups) \ {closest} :
            Abs(group - prov_average) <= IN_GROUP

\* update_average_possible: no group lies within IN_GROUP of the average
update_average_possible(closest, groups) ==
    LET prov_average == SeqSum(Members(groups, closest))
                            \div Len(Members(groups, closest))
    IN ~ \E group \in Keys(groups) : Abs(group - prov_average) <= IN_GROUP

\* groups[k] = members
SetItem(groups, k, members) ==
    IF k \in Keys(groups)
    THEN [groups EXCEPT ![Entry(groups, k)].members = members]
    ELSE Append(groups, [key |-> k, members |-> members])

\* del groups[k]
DelItem(groups, k) == SelectSeq(groups, LAMBDA g : g.key # k)

\* is_PS_modally_distributed, lines 189-198: the groups of payload lengths
RECURSIVE GroupLoop(_, _, _)
GroupLoop(payloads, j, groups) ==
    IF j > Len(payloads) THEN groups
    ELSE LET payload == payloads[j]
             closest == closest_group(payload, groups)
         IN IF closest = None
            THEN GroupLoop(payloads, j + 1,
                           SetItem(groups, payload, <<payload>>))
            ELSE LET key == closest[1]
                     appended == SetItem(groups, key,
                                    Append(Members(groups, key), payload))
                     average == SeqSum(Members(appended, key))
                                    \div Len(Members(appended, key))
                 IN IF update_average_possible(key, appended)
                    THEN GroupLoop(payloads, j + 1,
                            DelItem(SetItem(appended, average,
                                            Members(appended, key)), key))
                    ELSE GroupLoop(payloads, j + 1, appended)

\* is_PS_modally_distributed, lines 190-198: one turn of the loop
GroupStep(payload, groups) == GroupLoop(<<payload>>, 1, groups)

\* is_PS_modally_distributed, lines 199-202: the size of the big groups
RECURSIVE BigGroups(_, _, _)
BigGroups(groups, i, n) ==
    IF i > Len(groups) THEN 0
    ELSE (IF ~RatioLeq(<<Len(groups[i].members), 1>>,
                       <<n * MIN_SIZE[1], MIN_SIZE[2]>>)
          THEN Len(groups[i].members) ELSE 0)
         + BigGroups(groups, i + 1, n)

(***************************************************************************)
(* is_PS_modally_distributed.  The logging call of line 204 divides by     *)
(* len(payloads): with no payload it raises ZeroDivisionError.             *)
(***************************************************************************)
is_PS_modally_distributed(ds) ==
    LET mine == Filtered(ds)
        payloads == [i \in 1..Len(mine) |-> mine[i].payloadLen]
        groups == GroupLoop(payloads, 1, <<>>)
        nb == BigGroups(groups, 1, Len(payloads))
    IN IF Len(payloads) = 0
       THEN [result |-> None, raised |-> Some("ZeroDivisionError")]
       ELSE [result |-> Some(~RatioLeq(<<nb, 1>>,
                        <<N_MOD_DIST[1] * Len(payloads), N_MOD_DIST[2]>>)),
             raised |-> None]

\* is_stepping_stone with the modal test run whatever the first test says
is_stepping_stone_of_AlwaysModal(ds) ==
    LET prov == compare_RTT_IAT(ds)
        modal == is_PS_modally_distributed(ds)
    IN IF prov.raised # None
       THEN [result |-> None, raised |-> prov.raised,
             calls |-> <<"compare_RTT_IAT">>]
       ELSE IF prov.result = Some(TRUE)
       THEN [result |-> Some(TRUE), raised |-> None,
             calls |-> <<"compare_RTT_IAT">>]
       ELSE [result |-> modal.result, raised |-> modal.raised,
             calls |-> <<"compare_RTT_IAT", "is_PS_modally_distributed">>]

(***************************************************************************)
(* SteppingStoneDetectionServerSideConnection.is_stepping_stone: the       *)
(* verdict, the exception that left it, and the methods it went through.   *)
(***************************************************************************)
is_stepping_stone_of(ds) ==
    LET prov == compare_RTT_IAT(ds)
        modal == is_PS_modally_distributed(ds)
    IN IF prov.raised # None
       THEN [result |-> None, raised |-> prov.raised,
             calls |-> <<"compare_RTT_IAT">>]
       ELSE IF prov.result = None
       THEN [result |-> Some(FALSE), raised |-> None,
             calls |-> <<"compare_RTT_IAT">>]
       ELSE IF prov.result = Some(TRUE)
       THEN [result |-> Some(TRUE), raised |-> None,
             calls |-> <<"compare_RTT_IAT">>]
       ELSE [result |-> modal.result, raised |-> modal.raised,
             calls |-> <<"compare_RTT_IAT", "is_PS_modally_distributed">>]

\* SteppingStoneDetectionServerSide.analyse, for the connection c
Detect ==
    /\ pc = "estimated"
    /\ LET r == IF Len(datagrams) > MinDatagrams
                THEN is_stepping_stone_of(datagrams)
                ELSE [result |-> Some(FALSE), raised |-> None, calls |-> <<>>]
       IN /\ is_stepping_stone' = r.result
          /\ raised' = r.raised
          /\ calls' = r.calls
    /\ pc' = "detected"
    /\ UNCHANGED <<datagrams, bursts, connection_type, time_to_reply,
                   ratio_server_sent, clustering>>

(***************************************************************************)
(* An RTT-annotated connection handed to the detector grows by a burst of  *)
(* like datagrams: client datagrams of one payload length, pace and RTT,   *)
(* or server datagrams (whose fields the detector never reads).            *)
(***************************************************************************)
RECURSIVE Burst(_, _, _, _, _, _)
Burst(ds, n, c, l, g, r) ==
    IF n = 0 THEN ds
    ELSE Burst(Append(ds,
                 [Datagram(Len(ds) + 1, c,
                           (IF ds = <<>> THEN 0 ELSE ds[Len(ds)].time) + g,
                           Len(ds) + 1, l, Len(ds))
                     EXCEPT !.RTT = r]),
               n - 1, c, l, g, r)

CaptureBurst ==
    /\ pc = "estimated"
    /\ bursts < MaxBursts
    /\ \E n \in BurstLens, c \in BOOLEAN, l \in BurstPayloadLens,
          g \in BurstGaps, r \in {None, Some(1)} :
          /\ Len(datagrams) + n <= MaxDatagrams
          /\ SameEvidence(c, r)
          /\ ~c => (l = 1 /\ g = 1 /\ r = None)
          /\ datagrams' = Burst(datagrams, n, c, l, g, r)
    /\ bursts' = bursts + 1
    /\ UNCHANGED <<pc, analyser, clustering>>

(***************************************************************************)
(* The grouping of payload lengths, one turn of the loop at a time, on an  *)
(* RTT-annotated connection made of client datagrams with payload.  The    *)
(* payload lengths are below 8, where the iteration order of the dict is   *)
(* the ascending one.                                                      *)
(***************************************************************************)
CapturePayload ==
    /\ pc = "estimated"
    /\ Len(datagrams) < MaxPayloads
    /\ \E l \in PayloadSizes :
          datagrams' = Append(datagrams,
                [Datagram(Len(datagrams) + 1, TRUE, LastTime + 1,
                          Len(datagrams) + 1, l, Len(datagrams))
                    EXCEPT !.RTT = Some(1)])
    /\ UNCHANGED <<pc, bursts, analyser, clustering>>

\* is_PS_modally_distributed, lines 187-188
StartGrouping ==
    /\ pc = "estimated"
    /\ LET mine == Filtered(datagrams)
       IN ps_payloads' = [i \in 1..Len(mine) |-> mine[i].payloadLen]
    /\ ps_groups' = <<>>
    /\ ps_processed' = 0
    /\ pc' = "grouping"
    /\ UNCHANGED <<datagrams, bursts, analyser>>

\* is_PS_modally_distributed, lines 189-198: one turn of the loop
GroupPayload ==
    /\ pc = "grouping"
    /\ ps_processed < Len(ps_payloads)
    /\ ps_groups' = GroupStep(ps_payloads[ps_processed + 1], ps_groups)
    /\ ps_processed' = ps_processed + 1
    /\ UNCHANGED <<datagrams, pc, bursts, analyser, ps_payloads>>

Init ==
    /\ datagrams = <<>>
    /\ pc = "capture"
    /\ bursts = 0
    /\ connection_type = None
    /\ time_to_reply = [w \in BOOLEAN |-> <<>>]
    /\ ratio_server_sent = <<0, 1>>
    /\ is_stepping_stone = None
    /\ raised = None
    /\ calls = <<>>
    /\ ps_payloads = <<>>
    /\ ps_groups = <<>>
    /\ ps_processed = 0

\* the same, with the connection already through compute_RTT
InitAnnotated ==
    /\ datagrams = <<>>
    /\ pc = "estimated"
    /\ bursts = 0
    /\ connection_type = None
    /\ time_to_reply = [w \in BOOLEAN |-> <<>>]
    /\ ratio_server_sent = <<0, 1>>
    /\ is_stepping_stone = None
    /\ raised = None
    /\ calls = <<>>
    /\ ps_payloads = <<>>
    /\ ps_groups = <<>>
    /\ ps_processed = 0

Next == Capture \/ ComputeRTT

Spec == Init /\ [][Next]_vars

NextOrdered == CaptureOrdered \/ ComputeRTT

SpecOrdered == Init /\ [][NextOrdered]_vars

NextType == CaptureAnnotated \/ Analyse

SpecType == InitAnnotated /\ [][NextType]_vars

NextDetect == CaptureBurst \/ Detect

SpecDetect == InitAnnotated /\ [][NextDetect]_vars

NextGroups == CapturePayload \/ StartGrouping \/ GroupPayload

SpecGroups == InitAnnotated /\ [][NextGroups]_vars

(***************************************************************************)
(* What the exact matching pass alone gives the captured datagrams (ex),   *)
(* and the datagrams of one direction.                                     *)
(***************************************************************************)
Fresh(ds) == [p \in 1..Len(ds) |-> [ds[p] EXCEPT !.RTT = None]]
Exact == Step1(Fresh(datagrams))
Dir(way) == {p \in 1..Len(datagrams) : datagrams[p].sentByClient = way}
Matched(ex, way) == {p \in Dir(way) : ex[p].RTT # None}
Between(way, p, q) == {x \in Dir(way) : p < x /\ x < q}
SetMin(S) == CHOOSE x \in S : \A y \in S : x <= y
SetMax(S) == CHOOSE x \in S : \A y \in S : x >= y
\* two matched datagrams of a direction with only unmatched ones between
Gap(ex, way, p0, p1) ==
    /\ p0 < p1
    /\ ex[p0].RTT # None /\ ex[p1].RTT # None
    /\ Between(way, p0, p1) # {}
    /\ \A x \in Between(way, p0, p1) : ex[x].RTT = None
\* the rank (from 1) of x among the datagrams of the gap that starts at p0
Rank(way, p0, x) == Cardinality(Between(way, p0, x + 1))

(* C1: after compute_RTT, connection.datagrams holds the same datagram     *)
(* objects in the same order as before the call.                           *)
C1_OrderRestored ==
    pc = "estimated" =>
        \A p \in 1..Len(datagrams) :
            /\ datagrams[p].id = p
            /\ \A q \in 1..Len(datagrams) :
                  p <= q => datagrams[p].time <= datagrams[q].time

C1_Witness ==
    /\ pc = "estimated"
    /\ Len(datagrams) >= 3
    /\ \E p \in 1..Len(datagrams) : datagrams[p].RTT # None
    /\ datagrams[1].time < datagrams[Len(datagrams)].time

(* C5, as amended: in a gap of k unmatched datagrams between two matched   *)
(* datagrams of one direction with exact RTTs r0 and r1, the i-th receives *)
(* r0 + i * floor((r1 - r0) / (k + 1)) microseconds.                       *)
C5_InterpolationFloored ==
    pc = "estimated" =>
        LET ex == Exact
        IN \A way \in BOOLEAN : \A p0, p1 \in Dir(way) :
             Gap(ex, way, p0, p1) =>
                LET k == Cardinality(Between(way, p0, p1))
                    r0 == ex[p0].RTT[1]
                    r1 == ex[p1].RTT[1]
                IN \A x \in Between(way, p0, p1) :
                     datagrams[x].RTT =
                        Some(r0 + Rank(way, p0, x) * ((r1 - r0) \div (k + 1)))

(* C5, as stated: the i-th receives exactly r0 + i*(r1 - r0)/(k+1).        *)
C5_InterpolationExact ==
    pc = "estimated" =>
        LET ex == Exact
        IN \A way \in BOOLEAN : \A p0, p1 \in Dir(way) :
             Gap(ex, way, p0, p1) =>
                LET k == Cardinality(Between(way, p0, p1))
                    r0 == ex[p0].RTT[1]
                    r1 == ex[p1].RTT[1]
                IN \A x \in Between(way, p0, p1) :
                     /\ datagrams[x].RTT # None
                     /\ datagrams[x].RTT[1] * (k + 1) =
                            r0 * (k + 1) + Rank(way, p0, x) * (r1 - r0)

C5_Witness ==
    /\ pc = "estimated"
    /\ LET ex == Exact
       IN \E way \in BOOLEAN : \E p0, p1 \in Dir(way) :
            /\ Gap(ex, way, p0, p1)
            /\ Cardinality(Between(way, p0, p1)) = 2
            /\ ex[p1].RTT[1] > ex[p0].RTT[1]
            /\ \E x \in 1..Len(datagrams) :
                  datagrams[x].sentByClient # way /\ p0 < x /\ x < p1

(* C6: within one direction, every datagram before the first matched one   *)
(* receives the first matched RTT, every datagram after the last matched   *)
(* one receives the last matched RTT.                                      *)
C6_FlatFill ==
    pc = "estimated" =>
        LET ex == Exact
        IN \A way \in BOOLEAN :
             LET m == Matched(ex, way)
             IN m # {} =>
                  \A x \in Dir(way) :
                    /\ x < SetMin(m) => datagrams[x].RTT = ex[SetMin(m)].RTT
                    /\ x > SetMax(m) => datagrams[x].RTT = ex[SetMax(m)].RTT

C6_Witness ==
    /\ pc = "estimated"
    /\ LET ex == Exact
       IN \E way \in BOOLEAN :
            LET m == Matched(ex, way)
            IN /\ m # {}
               /\ SetMin(m) # SetMax(m)
               /\ Cardinality({x \in Dir(way) : x < SetMin(m)}) >= 2
               /\ \E x \in Dir(way) : x > SetMax(m)

(* C7: for each direction, if no datagram of it is matched in the exact    *)
(* pass every datagram of it still has RTT unset after compute_RTT,        *)
(* otherwise every datagram of it has RTT set.                             *)
C7_Completeness ==
    pc = "estimated" =>
        LET ex == Exact
        IN \A way \in BOOLEAN :
             LET m == Matched(ex, way)
             IN \A x \in Dir(way) : (m = {}) <=> (datagrams[x].RTT = None)

C7_Witness ==
    /\ pc = "estimated"
    /\ LET ex == Exact
       IN \E way \in BOOLEAN :
            /\ Matched(ex, way) = {} /\ Dir(way) # {}
            /\ Matched(ex, ~way) # {}
            /\ \E x \in Dir(~way) : x > SetMax(Matched(ex, ~way))

(* C10: with non-decreasing timestamps and RTTs that all start unset,      *)
(* every RTT compute_RTT sets is a non-negative duration.                  *)
C10_NonNegative ==
    pc = "estimated" =>
        \A p \in 1..Len(datagrams) :
            datagrams[p].RTT = None \/ datagrams[p].RTT[1] >= 0

(***************************************************************************)
(* The stepping-stone detector and the classifier.                         *)
(***************************************************************************)
Labels == {"scp (up)", "scp (down)", "shell", "reverse shell", "tunnel"}
SubTestA == "compare_RTT_IAT"
SubTestB == "is_PS_modally_distributed"
Called(name) == \E i \in 1..Len(calls) : calls[i] = name
ClientPayloads == Len(Filtered(datagrams))

(* C2, as amended: for a connection that reaches the sub-tests, if         *)
(* compare_RTT_IAT returns true the verdict is true and                    *)
(* is_PS_modally_distributed is not run; if it returns false,              *)
(* is_PS_modally_distributed is run and the verdict is its boolean; if it  *)
(* is inconclusive (None), the verdict is false and                        *)
(* is_PS_modally_distributed is not run.                                   *)
C2_VerdictOfSubTests ==
    (pc = "detected" /\ Len(datagrams) > MinDatagrams) =>
        LET a == compare_RTT_IAT(datagrams)
        IN a.raised = None =>
             /\ a.result = Some(TRUE) =>
                   /\ is_stepping_stone = Some(TRUE)
                   /\ calls = <<SubTestA>>
             /\ a.result = Some(FALSE) =>
                   /\ calls = <<SubTestA, SubTestB>>
                   /\ is_stepping_stone = is_PS_modally_distributed(datagrams).result
                   /\ is_stepping_stone # None
             /\ a.result = None =>
                   /\ is_stepping_stone = Some(FALSE)
                   /\ calls = <<SubTestA>>

(* C2, as stated: if compare_RTT_IAT returns true the verdict is true      *)
(* without is_PS_modally_distributed; if it returns false or is            *)
(* inconclusive, is_PS_modally_distributed is run and the verdict is its   *)
(* boolean.                                                                *)
C2_InconclusiveRunsModal ==
    (pc = "detected" /\ Len(datagrams) > MinDatagrams) =>
        LET a == compare_RTT_IAT(datagrams)
        IN a.raised = None =>
             /\ a.result = Some(TRUE) =>
                   /\ is_stepping_stone = Some(TRUE)
                   /\ ~Called(SubTestB)
             /\ a.result # Some(TRUE) =>
                   /\ Called(SubTestB)
                   /\ is_stepping_stone = is_PS_modally_distributed(datagrams).result

C2_Witness ==
    /\ pc = "detected"
    /\ Len(datagrams) > MinDatagrams
    /\ compare_RTT_IAT(datagrams).result = Some(FALSE)
    /\ calls = <<SubTestA, SubTestB>>
    /\ is_stepping_stone = Some(TRUE)

(* C3: for every connection with fewer than 20 client-originated           *)
(* payload-bearing datagrams the detector records the verdict False and    *)
(* invokes neither compare_RTT_IAT nor is_PS_modally_distributed.          *)
C3_FewClientPayloads ==
    (pc = "detected" /\ ClientPayloads < 20) =>
        /\ is_stepping_stone = Some(FALSE)
        /\ ~Called(SubTestA)
        /\ ~Called(SubTestB)

(* C4: for a connection in which the datagrams of some direction have      *)
(* their RTT left unset, ConnectionType.analyse still ends with one of the *)
(* five labels and the detector with a boolean verdict; neither raises.    *)
C4_UnsetRTTNeverRaises ==
    (\E way \in BOOLEAN :
        Dir(way) # {} /\ \A p \in Dir(way) : datagrams[p].RTT = None) =>
        /\ pc = "classified" =>
              /\ raised = None
              /\ connection_type \in {Some(l) : l \in Labels}
        /\ pc = "detected" =>
              /\ raised = None
              /\ is_stepping_stone \in {Some(TRUE), Some(FALSE)}

(* C8: with ratio = server payload bytes / all payload bytes (0 when there *)
(* are none), analyse labels 'scp (down)' when ratio >= 0.95 and           *)
(* 'scp (up)' when ratio <= 0.05, without computing any time to reply;     *)
(* otherwise step 1 sets no label and step 2 runs.                         *)
C8_AsymetryStep ==
    pc = "classified" =>
        LET server == SumPayload(datagrams, 1, FALSE)
            total == server + SumPayload(datagrams, 1, TRUE)
            down == total # 0 /\ 100 * server >= 95 * total
            up == total = 0 \/ 100 * server <= 5 * total
            untimed == /\ ~Called("compute_time_to_reply")
                       /\ time_to_reply = [w \in BOOLEAN |-> <<>>]
                       /\ raised = None
        IN /\ down => connection_type = Some("scp (down)") /\ untimed
           /\ up => connection_type = Some("scp (up)") /\ untimed
           /\ (~down /\ ~up) =>
                 /\ Called("compute_time_to_reply")
                 /\ connection_type \notin {Some("scp (down)"), Some("scp (up)")}

C8_Witness ==
    /\ pc = "classified"
    /\ SumPayload(datagrams, 1, FALSE) = 19
    /\ SumPayload(datagrams, 1, TRUE) = 1
    /\ connection_type = Some("scp (down)")
    /\ calls = <<"compute_asymetry">>

(* C9: when step 1 does not decide, the label is 'shell' if the            *)
(* server-replies-to-client samples are non-empty and the fraction of them *)
(* <= 0.7 is >= 0.6, otherwise 'reverse shell' if the same holds of the    *)
(* client-replies-to-server samples, otherwise 'tunnel'; every call to     *)
(* analyse ends with exactly one of the five labels.                       *)
C9_StepTwoLabel ==
    pc = "classified" =>
        LET quick(w) == {i \in 1..Len(time_to_reply[w]) :
                            RatioLeq(time_to_reply[w][i], <<7, 10>>)}
            qualifies(w) ==
                /\ Len(time_to_reply[w]) > 0
                /\ 10 * Cardinality(quick(w)) >= 6 * Len(time_to_reply[w])
        IN /\ connection_type \in {Some(l) : l \in Labels}
           /\ Called("compute_time_to_reply") =>
                connection_type =
                    IF qualifies(TRUE) THEN Some("shell")
                    ELSE IF qualifies(FALSE) THEN Some("reverse shell")
                    ELSE Some("tunnel")

(***************************************************************************)
(* The exact matching pass, datagram by datagram.                          *)
(***************************************************************************)
\* the acknowledgment-carrying datagrams of direction way after position p
AckersAfter(way, p) ==
    {q \in Dir(way) : q > p /\ datagrams[q].ack > -1}
\* the first acknowledgment-carrying datagram of the opposite direction
\* after position p, or None
FirstAcker(p) ==
    LET after == AckersAfter(~datagrams[p].sentByClient, p)
    IN IF after = {} THEN None ELSE Some(SetMin(after))
\* the datagrams the exact pass matched with the acker at position a
ConsumersOf(ex, a) ==
    {p \in 1..Len(datagrams) :
        ex[p].RTT # None /\ FirstAcker(p) = Some(a)}

(* C11: in the exact matching pass a datagram d receives an RTT exactly    *)
(* when the first acknowledgment-carrying datagram A of the opposite       *)
(* direction after d exists, has A.seqNb > d.seqNb and has not been        *)
(* consumed by a datagram between d and A; the RTT is A.time - d.time; and *)
(* each acknowledgment-carrying datagram gives an RTT to at most one       *)
(* datagram.                                                               *)
C11_FirstOppositeAck ==
    LET ex == Exact
    IN /\ \A p \in 1..Len(datagrams) :
            LET A == FirstAcker(p)
                free == /\ A # None
                        /\ datagrams[A[1]].seqNb > datagrams[p].seqNb
                        /\ \A x \in Between(datagrams[p].sentByClient, p, A[1]) :
                              ex[x].RTT = None
            IN /\ free => ex[p].RTT =
                            Some(datagrams[A[1]].time - datagrams[p].time)
               /\ ~free => ex[p].RTT = None
       /\ \A a \in 1..Len(datagrams) : Cardinality(ConsumersOf(ex, a)) <= 1

\* a datagram is left without an exact RTT because the acker after it,
\* with a larger sequence number, was consumed by a datagram between them
C11_Witness ==
    /\ pc = "estimated"
    /\ \E p \in 1..Len(datagrams) :
          LET A == FirstAcker(p)
          IN /\ A # None
             /\ datagrams[A[1]].seqNb > datagrams[p].seqNb
             /\ Exact[p].RTT = None
             /\ \E x \in Between(datagrams[p].sentByClient, p, A[1]) :
                   Exact[x].RTT =
                       Some(datagrams[A[1]].time - datagrams[x].time)

(***************************************************************************)
(* The grouping of payload lengths.                                        *)
(***************************************************************************)
\* the payload the next turn of the grouping loop takes
NextPayload == ps_payloads[ps_processed + 1]
\* the group centers within the tolerance window of a payload
Near(payload, groups) ==
    {k \in Keys(groups) : Abs(k - payload) <= IN_GROUP}
\* how many times v occurs in the sequence q
Count(q, v) == Cardinality({i \in 1..Len(q) : q[i] = v})

(* C12: whenever a sample is appended to a group and the group's new       *)
(* running average is not within 3 of any other group's center, the group  *)
(* is re-keyed under its updated average; only a collision with another    *)
(* group's center leaves the group under its old key.                      *)
C12_RekeyedUnderAverage ==
    [][(ps_processed' = ps_processed + 1
          /\ closest_group(NextPayload, ps_groups) # None) =>
        LET key == closest_group(NextPayload, ps_groups)[1]
            members == Append(Members(ps_groups, key), NextPayload)
            average == SeqSum(members) \div Len(members)
            collision == \E other \in Keys(ps_groups) \ {key} :
                            Abs(other - average) <= IN_GROUP
        IN IF collision
           THEN /\ key \in Keys(ps_groups')
                /\ Members(ps_groups', key) = members
           ELSE /\ average \in Keys(ps_groups')
                /\ Members(ps_groups', average) = members
                /\ average # key => key \notin Keys(ps_groups')]_vars

(* C13: closest_group returns a center whose distance to the payload is    *)
(* minimal among the centers within the tolerance window (distance <= 3),  *)
(* and returns none exactly when no center lies within the window.         *)
C13_ClosestIsNearest ==
    (pc = "grouping" /\ ps_processed < Len(ps_payloads)) =>
        LET closest == closest_group(NextPayload, ps_groups)
            near == Near(NextPayload, ps_groups)
        IN /\ (closest = None) = (near = {})
           /\ closest # None =>
                 /\ closest[1] \in near
                 /\ \A k \in near :
                       Abs(closest[1] - NextPayload) <= Abs(k - NextPayload)

(* C15: after each sample is processed, every sample processed so far is   *)
(* a member of exactly one group (the group sizes sum to the number of     *)
(* samples processed, no group is lost, duplicated or merged), and any two *)
(* distinct group centers differ by more than the tolerance 3.             *)
C15_GroupsPartitionSamples ==
    pc = "grouping" =>
        LET seen == SubSeq(ps_payloads, 1, ps_processed)
            sizes == [i \in 1..Len(ps_groups) |-> Len(ps_groups[i].members)]
        IN /\ SeqSum(sizes) = ps_processed
           /\ \A v \in PayloadSizes :
                 Count(seen, v) =
                    SeqSum([i \in 1..Len(ps_groups) |->
                               Count(ps_groups[i].members, v)])
           /\ \A i, j \in 1..Len(ps_groups) :
                 i # j => Abs(ps_groups[i].key - ps_groups[j].key) > IN_GROUP
           /\ \A i \in 1..Len(ps_groups) : ps_groups[i].members # <<>>

\* four samples went into two groups, one of them appended to twice
C15_Witness ==
    /\ pc = "grouping"
    /\ ps_processed = 4
    /\ Len(ps_groups) = 2
    /\ \E i \in 1..2 :
          /\ Len(ps_groups[i].members) = 3
          /\ \E m \in 2..3 : ps_groups[i].members[m] # ps_groups[i].key

(***************************************************************************)
(* The times to reply.                                                     *)
(***************************************************************************)
\* the payload-bearing datagram just before position p, or None
Trigger(p) ==
    LET before == {q \in 1..Len(datagrams) :
                      q < p /\ datagrams[q].payloadLen # 0}
    IN IF before = {} THEN None ELSE Some(SetMax(before))
\* the datagram at p is a reply of direction way (TRUE: of the server) to
\* the payload-bearing datagram just before it, whose RTT is non-zero
IsReply(p, way) ==
    /\ datagrams[p].payloadLen # 0
    /\ datagrams[p].sentByClient = ~way
    /\ Trigger(p) # None
    /\ LET trigger == datagrams[Trigger(p)[1]]
       IN /\ trigger.sentByClient = way
          /\ trigger.RTT # None
          /\ trigger.RTT[1] # 0
Replies(way) ==
    SelectSeq([p \in 1..Len(datagrams) |-> p], LAMBDA p : IsReply(p, way))

(* C14: compute_time_to_reply appends one sample                           *)
(* (t_reply - t_trigger) / RTT_trigger to direction way for exactly each   *)
(* pair of consecutive payload-bearing datagrams (zero-payload datagrams   *)
(* ignored) in which the trigger is sent by the opposite direction, the    *)
(* reply by way, and the trigger's RTT is non-zero; same-direction pairs   *)
(* yield no sample and each trigger yields at most one.                    *)
C14_SamplePerReply ==
    (pc = "classified" /\ Called("compute_time_to_reply")) =>
        \A way \in BOOLEAN :
            time_to_reply[way] =
                [i \in 1..Len(Replies(way)) |->
                    LET p == Replies(way)[i]
                        trigger == datagrams[Trigger(p)[1]]
                    IN <<datagrams[p].time - trigger.time, trigger.RTT[1]>>]

=============================================================================
